---- MODULE Spec2Model ----
(***************************************************************************)
(* Selman: the interactive selection manager of src/src/selman/core.py,    *)
(* with the terminal it drives (src/src/selman/ansi_control.py and         *)
(* src/src/selman/printer.py).                                             *)
(*                                                                         *)
(* The terminal is modelled by the row of its cursor (row 0 is the row of  *)
(* the first item), by what was last written on each row, by its tty mode  *)
(* and by its cursor-visibility and autowrap switches.  Columns, colours   *)
(* and glyphs are not modelled: a written line is the pair                 *)
(* <<text, TextEffect>>.  Python's Optional[T] is the set {} (None) or {v}.*)
(***************************************************************************)
EXTENDS Integers, Sequences, FiniteSets, TLC

\* ------------------------------------------------------------------ bounds
MaxItems == 3
MaxFooter == 2

\* --------------------------------------------------------------- variables
VARIABLES
    \* construction-time configuration (core.py 31-36)
    selection, allow_multiple_selection, mutex_group, footer_comments,
    wipe_comments_after_select,
    \* Selman's mutable fields (core.py 38, 57-59)
    current_index, sel_board, banned_board, _terminate,
    \* locals of selman_mainstream and manage_key_input, the value run()
    \* returns, and whether an exception is propagating
    old, action, last_selection, result, raised,
    \* the terminal
    tty_attr, cursor_visible, autowrap, cursor, screen, drawn,
    \* where the program is
    pc

config == <<selection, allow_multiple_selection, mutex_group, footer_comments,
            wipe_comments_after_select>>
fields == <<current_index, sel_board, banned_board, _terminate>>
locals == <<old, action, last_selection, result, raised>>
terminal == <<tty_attr, cursor_visible, autowrap, cursor, screen, drawn>>
vars == <<config, fields, locals, terminal, pc>>

\* ------------------------------------------------------------------ values
None == "None"

UNFOCUSED == "UNFOCUSED"
FOCUSED == "FOCUSED"
SELECTED == "SELECTED"
SELECTED_FOCUSED == "SELECTED_FOCUSED"
BANNED == "BANNED"
BANNED_FOCUSED == "BANNED_FOCUSED"
TextEffect == {UNFOCUSED, FOCUSED, SELECTED, SELECTED_FOCUSED, BANNED, BANNED_FOCUSED}

\* key tokens: a token is the tuple of the bytes read for it
ANSI_KEY_UP == <<"ESC", "[", "A">>
ANSI_KEY_DOWN == <<"ESC", "[", "B">>
ANSI_KEY_RIGHT == <<"ESC", "[", "C">>
ANSI_KEY_EOX == <<"ETX">>

\* len(self.selection); items are indexed from 0 as in the source
len(list) == Cardinality(DOMAIN list)
Indices == DOMAIN selection
Labels == {selection[i] : i \in Indices}

\* ------------------------------------------------- the configurations tried
LabelNames == <<"A", "B", "C", "D", "E", "F">>
LabelIndex(l) == CHOOSE k \in 1..Len(LabelNames) : LabelNames[k] = l
Max(S) == CHOOSE x \in S : \A y \in S : y <= x

\* Lists of 1..MaxItems labels, equal labels allowed.  The code only compares
\* labels for equality (they are dictionary keys), so one list per renaming
\* class is tried: the first label is "A" and each later label is an earlier
\* one or the next unused name.
SelectionLists ==
    UNION { { f \in [0..(n - 1) -> {LabelNames[k] : k \in 1..n}] :
                /\ f[0] = "A"
                /\ \A i \in 1..(n - 1) :
                     LabelIndex(f[i]) <= 1 + Max({LabelIndex(f[j]) : j \in 0..(i - 1)}) }
          : n \in 1..MaxItems }

\* Sets of pairwise disjoint pairs of distinct item indices: the supported
\* mutex groups (spec section 3).
Pairs(n) == { {i, j} : i \in 0..(n - 1), j \in 0..(n - 1) } \ { {i} : i \in 0..(n - 1) }
ValidGroups(n) ==
    { g \in SUBSET Pairs(n) : \A p \in g, q \in g : p # q => p \cap q = {} }
\* One unsupported shape is tried as well, a group with a single member, on
\* which get_opposite_mutex_index raises.
SingletonGroups(n) == { { {0} } }
MutexGroups(n) == {{}} \cup { {g} : g \in ValidGroups(n) \cup SingletonGroups(n) }

ValidMutex ==
    \A g \in mutex_group : g \in ValidGroups(len(selection))

FooterTexts == <<"c1", "c2", "c3", "c4">>
\* No footer, one footer line, or MaxFooter footer lines.
FooterLists == {{}} \cup { {SubSeq(FooterTexts, 1, f)} : f \in {1, MaxFooter} }

\* The terminal mode the session finds, as tcgetattr reports it.
TtyModes == {"cooked"}

\* number of footer lines on screen (0 when footer_comments is None)
FooterCount == IF footer_comments = {} THEN 0 ELSE Len(CHOOSE c \in footer_comments : TRUE)
Rows == 0..(len(selection) + FooterCount + 1)

Init ==
    /\ selection \in SelectionLists
    /\ allow_multiple_selection \in BOOLEAN
    /\ mutex_group \in MutexGroups(len(selection))
    /\ footer_comments \in FooterLists
    /\ wipe_comments_after_select \in BOOLEAN
    /\ current_index = 0
    /\ sel_board = [item \in Labels |-> FALSE]
    /\ banned_board = [item \in Labels |-> FALSE]
    /\ _terminate = FALSE
    /\ old = None
    /\ action = None
    /\ last_selection = None
    /\ result = None
    /\ raised = FALSE
    /\ tty_attr \in TtyModes
    /\ cursor_visible = TRUE
    /\ autowrap = TRUE
    /\ cursor = 0
    /\ screen = [r \in Rows |-> <<>>]
    /\ drawn = <<>>
    /\ pc = "run"

\* ------------------------------------------------------ the program state
\* The state the operations read and write, as one record: Selman's fields,
\* the terminal, the value the operation returns (ret) and whether it raised.
Cur ==
    [current_index |-> current_index, sel_board |-> sel_board,
     banned_board |-> banned_board, _terminate |-> _terminate,
     cursor |-> cursor, screen |-> screen, drawn |-> <<>>,
     ret |-> None, raised |-> FALSE]

\* ------------------------------------------------------------ ansi_control
cursor_up(s, dist) == IF dist = 0 THEN s ELSE [s EXCEPT !.cursor = @ - dist]
cursor_down(s, dist) == IF dist = 0 THEN s ELSE [s EXCEPT !.cursor = @ + dist]

Abs(x) == IF x < 0 THEN -x ELSE x

\* Moves the cursor by relative_pos_row rows.  The restoration callable the
\* source returns is restore_cursor below, applied to the same delta.
move_cursor_by_relative_pos_row(s, relative_pos_row) ==
    IF relative_pos_row = 0 THEN s
    ELSE IF relative_pos_row > 0 THEN cursor_down(s, Abs(relative_pos_row))
    ELSE cursor_up(s, Abs(relative_pos_row))

\* mutant of restore_cursor: the restoration moves the same way as the move
restore_cursor_same_way(s, relative_pos_row) ==
    move_cursor_by_relative_pos_row(s, relative_pos_row)

restore_cursor(s, relative_pos_row) ==
    IF relative_pos_row = 0 THEN s
    ELSE IF relative_pos_row > 0 THEN cursor_up(s, Abs(relative_pos_row))
    ELSE cursor_down(s, Abs(relative_pos_row))

erase_line(s) == [s EXCEPT !.screen[s.cursor] = <<"erased">>]

is_ansi_key(target) == target = <<"ESC">>

\* ----------------------------------------------------------------- printer
\* print_text_effect with relative_pos = None, the only way core.py calls it:
\* the styled text is written on the row the cursor is on.
print_text_effect(s, text, effect) ==
    [s EXCEPT !.screen[s.cursor] = <<text, effect>>,
              !.drawn = Append(@, <<s.cursor, effect>>)]

print_unfocused(s, text) == print_text_effect(s, text, UNFOCUSED)

\* write_line(c) of a footer comment
write_line(s, text) == [s EXCEPT !.screen[s.cursor] = <<text>>]

\* print(): the newline takes the cursor to the next row
print_newline(s) == [s EXCEPT !.cursor = @ + 1]

\* -------------------------------------------------------------------- core
is_index_valid(target_index) == 0 <= target_index /\ target_index < len(selection)

is_index_selected(s, target_index) == s.sel_board[selection[target_index]]

is_index_banned(s, target_index) == s.banned_board[selection[target_index]]

get_relative_pos_by_index(s, index) == index - s.current_index

\* target_index is {} for None and {i} for index i
render_text_effect(s, effect, target_index) ==
    IF target_index # {} /\ is_index_valid(CHOOSE i \in target_index : TRUE)
    THEN LET t == CHOOSE i \in target_index : TRUE
             relative_pos == get_relative_pos_by_index(s, t)
             moved == move_cursor_by_relative_pos_row(s, relative_pos)
             printed == print_text_effect(moved, selection[t], effect)
         IN  restore_cursor(printed, relative_pos)
    ELSE print_text_effect(s, selection[s.current_index], effect)

\* render_text_effect when print_text_effect raises: nothing is written; at a
\* valid target_index the finally clause has moved the cursor back before the
\* exception propagates.
render_text_effect_raising(s, effect, target_index) ==
    IF target_index # {} /\ is_index_valid(CHOOSE i \in target_index : TRUE)
    THEN LET t == CHOOSE i \in target_index : TRUE
             relative_pos == get_relative_pos_by_index(s, t)
             moved == move_cursor_by_relative_pos_row(s, relative_pos)
         IN  [restore_cursor(moved, relative_pos) EXCEPT !.raised = TRUE]
    ELSE [s EXCEPT !.raised = TRUE]

\* mutant of terminate: the flag is flipped instead of set
terminate_toggling(s) == [s EXCEPT !._terminate = ~@]

terminate(s) == [s EXCEPT !._terminate = TRUE]

set_to_focused(s, target_index) ==
    IF is_index_selected(s, target_index)
    THEN render_text_effect(s, SELECTED_FOCUSED, {target_index})
    ELSE IF is_index_banned(s, target_index)
    THEN render_text_effect(s, BANNED_FOCUSED, {target_index})
    ELSE render_text_effect(s, FOCUSED, {})

\* mutant of set_to_unfocused: the old focus row is always drawn UNFOCUSED
set_to_unfocused_plain(s, target_index) ==
    render_text_effect(s, UNFOCUSED, {target_index})

set_to_unfocused(s, target_index) ==
    IF is_index_selected(s, target_index)
    THEN render_text_effect(s, SELECTED, {target_index})
    ELSE IF is_index_banned(s, target_index)
    THEN render_text_effect(s, BANNED, {target_index})
    ELSE render_text_effect(s, UNFOCUSED, {target_index})

\* mutant of change_focus: the focus wraps around instead of stopping at the
\* first and the last item
change_focus_wrapping(s, relative_move) ==
    LET target == (s.current_index + relative_move) % len(selection)
        s1 == set_to_unfocused(s, s.current_index)
        s2 == [s1 EXCEPT !.current_index = target]
        s3 == move_cursor_by_relative_pos_row(s2, target - s.current_index)
    IN  set_to_focused(s3, s3.current_index)

change_focus(s, relative_move) ==
    LET target == s.current_index + relative_move IN
    IF ~(0 <= target /\ target < len(selection)) THEN s
    ELSE LET s1 == set_to_unfocused(s, s.current_index)
             s2 == [s1 EXCEPT !.current_index = target]
             s3 == move_cursor_by_relative_pos_row(s2, relative_move)
         IN  set_to_focused(s3, s3.current_index)

proceed(s) ==
    LET s1 == IF s.sel_board[selection[s.current_index]]
              THEN render_text_effect(s, SELECTED, {})
              ELSE render_text_effect(s, UNFOCUSED, {})
    IN  terminate(s1)

\* The group of the source's iteration that holds target_index (the first
\* such group; in the groups tried here at most one holds it), as {} or {g}.
mutex_group_of(target_index) ==
    IF mutex_group = {} THEN {}
    ELSE LET holding == {g \in (CHOOSE gs \in mutex_group : TRUE) : target_index \in g}
         IN  IF holding = {} THEN {} ELSE {CHOOSE g \in holding : TRUE}

\* next(iter(s - {target_index})) raises StopIteration when the group holds
\* nothing else.
get_opposite_mutex_index_raises(target_index) ==
    \E g \in mutex_group_of(target_index) : g \ {target_index} = {}

\* {} for None, {i} for the opposite index i
get_opposite_mutex_index(target_index) ==
    {CHOOSE i \in g \ {target_index} : TRUE :
        g \in {h \in mutex_group_of(target_index) : h \ {target_index} # {}}}

\* mutant of ban_selection_by_index: the selected flag is not cleared
ban_selection_by_index_keeping(s, target_index, do_render) ==
    LET s1 == IF do_render THEN render_text_effect(s, BANNED, {target_index}) ELSE s
    IN  [s1 EXCEPT !.banned_board[selection[target_index]] = TRUE]

ban_selection_by_index(s, target_index, do_render) ==
    LET s1 == IF do_render THEN render_text_effect(s, BANNED, {target_index}) ELSE s
    IN  [s1 EXCEPT !.sel_board[selection[target_index]] = FALSE,
                   !.banned_board[selection[target_index]] = TRUE]

unban_selection_by_index(s, target_index, do_render) ==
    LET s1 == IF do_render THEN render_text_effect(s, UNFOCUSED, {target_index}) ELSE s
    IN  [s1 EXCEPT !.banned_board[selection[target_index]] = FALSE]

select_option(s) ==
    IF ~allow_multiple_selection
    THEN LET s1 == [s EXCEPT !.sel_board[selection[s.current_index]] = TRUE]
             s2 == render_text_effect(s1, SELECTED, {})
             s3 == terminate(s2)
         IN  [s3 EXCEPT !.ret = selection[s3.current_index]]
    ELSE LET current == s.sel_board[selection[s.current_index]]
             opposite_index == get_opposite_mutex_index(s.current_index)
         IN  IF current
             THEN LET s1 == [s EXCEPT !.sel_board[selection[s.current_index]] = FALSE]
                      s2 == render_text_effect(s1, FOCUSED, {})
                  IN  IF get_opposite_mutex_index_raises(s.current_index)
                      THEN [s2 EXCEPT !.raised = TRUE]
                      ELSE IF opposite_index # {}
                              /\ is_index_banned(s2, CHOOSE i \in opposite_index : TRUE)
                      THEN unban_selection_by_index(
                               s2, CHOOSE i \in opposite_index : TRUE, TRUE)
                      ELSE s2
             ELSE LET s1 == [s EXCEPT !.sel_board[selection[s.current_index]] = TRUE]
                      s2 == unban_selection_by_index(s1, s1.current_index, FALSE)
                      s3 == render_text_effect(s2, SELECTED_FOCUSED, {})
                  IN  IF get_opposite_mutex_index_raises(s.current_index)
                      THEN [s3 EXCEPT !.raised = TRUE]
                      ELSE IF opposite_index # {}
                      THEN ban_selection_by_index(
                               s3, CHOOSE i \in opposite_index : TRUE, TRUE)
                      ELSE s3

\* The key-action mapping built by __init__; the values name the bound actions.
key_events ==
    (<<"j">> :> "change_focus(1)") @@ (ANSI_KEY_DOWN :> "change_focus(1)") @@
    (<<"k">> :> "change_focus(-1)") @@ (ANSI_KEY_UP :> "change_focus(-1)") @@
    (<<"CR">> :> "select_option") @@ (<<"LF">> :> "select_option") @@
    (<<"n">> :> "proceed") @@
    (<<"q">> :> "terminate") @@ (ANSI_KEY_EOX :> "terminate")

\* self.key_events.get(k)
key_events_get(k) == IF k \in DOMAIN key_events THEN key_events[k] ELSE None

\* mutant of call_action: a token bound to nothing ends the session
call_action_quitting(s, bound) ==
    IF bound = "change_focus(1)" THEN change_focus(s, 1)
    ELSE IF bound = "change_focus(-1)" THEN change_focus(s, -1)
    ELSE IF bound = "select_option" THEN select_option(s)
    ELSE IF bound = "proceed" THEN proceed(s)
    ELSE terminate(s)

\* action(): the call of the action that key_events.get(k) returned (none
\* is called when it returned None)
call_action(s, bound) ==
    IF bound = "change_focus(1)" THEN change_focus(s, 1)
    ELSE IF bound = "change_focus(-1)" THEN change_focus(s, -1)
    ELSE IF bound = "select_option" THEN select_option(s)
    ELSE IF bound = "proceed" THEN proceed(s)
    ELSE IF bound = "terminate" THEN terminate(s)
    ELSE s

\* manage_key_input after the token k has been read
manage_key_input(s, k) == call_action(s, key_events_get(k))

\* The input the loop may read: the first byte read by selman_mainstream and,
\* after the escape introducer, the two bytes read by manage_key_input.  <<>>
\* is the empty read at end of input.
FirstBytes == {<<"j">>, <<"k">>, <<"CR">>, <<"LF">>, <<"n">>, <<"q">>, <<"ETX">>,
               <<"x">>, <<"ESC">>, <<>>}
EscapeTails == {<<"[", "A">>, <<"[", "B">>, <<"[", "C">>}
Tokens ==
    {b \in FirstBytes : ~is_ansi_key(b)}
      \cup {b \o seq : b \in {c \in FirstBytes : is_ansi_key(c)}, seq \in EscapeTails}

\* ----------------------------------------------------------------- actions
Commit(s) ==
    /\ current_index' = s.current_index
    /\ sel_board' = s.sel_board
    /\ banned_board' = s.banned_board
    /\ _terminate' = s._terminate
    /\ cursor' = s.cursor
    /\ screen' = s.screen
    /\ drawn' = s.drawn

\* run(): every item is printed UNFOCUSED on a row of its own, then
\* selman_mainstream is entered.
RECURSIVE print_items(_, _)
print_items(s, i) ==
    IF i >= len(selection) THEN s
    ELSE print_items(print_newline(print_unfocused(s, selection[i])), i + 1)

Run ==
    /\ pc = "run"
    /\ Commit(print_items(Cur, 0))
    /\ pc' = "mainstream"
    /\ UNCHANGED <<config, locals, tty_attr, cursor_visible, autowrap>>

RECURSIVE print_lines(_, _, _)
print_lines(s, comments, i) ==
    IF i > Len(comments) THEN s
    ELSE print_lines(print_newline(write_line(s, comments[i])), comments, i + 1)

print_comments(s) ==
    IF footer_comments = {} THEN s
    ELSE print_lines(s, CHOOSE c \in footer_comments : TRUE, 1)

\* mutant of initialize_focus: the move up counts the items only
initialize_focus_items_only(s) ==
    render_text_effect(cursor_up(s, len(selection)), FOCUSED, {})

initialize_focus(s) ==
    LET selection_count == len(selection)
        result_offset == IF footer_comments # {}
                         THEN selection_count + Len(CHOOSE c \in footer_comments : TRUE)
                         ELSE selection_count
    IN  render_text_effect(cursor_up(s, result_offset), FOCUSED, {})

\* selman_mainstream, first part: the mode is captured, raw mode entered, the
\* cursor hidden and autowrap disabled.
Mainstream ==
    /\ pc = "mainstream"
    /\ old' = tty_attr
    /\ tty_attr' = "raw"
    /\ cursor_visible' = FALSE
    /\ autowrap' = FALSE
    /\ Commit(Cur)
    /\ pc' = "entered"
    /\ UNCHANGED <<config, action, last_selection, result, raised>>

\* selman_mainstream, in raw mode before the loop: the footer lines are
\* printed and the initial focus is rendered.
MainstreamDraw ==
    /\ pc = "entered"
    /\ Commit(initialize_focus(print_comments(Cur)))
    /\ pc' = "loop"
    /\ UNCHANGED <<config, locals, tty_attr, cursor_visible, autowrap>>

\* mutant of LoopIteration: the termination flag is not looked at
LoopIteration_unchecked(k) ==
    /\ pc = "loop"
    /\ LET s == manage_key_input(Cur, k) IN
         /\ Commit(s)
         /\ action' = key_events_get(k)
         /\ raised' = s.raised
         /\ last_selection' = IF s.raised THEN last_selection ELSE s.ret
         /\ pc' = IF s.raised THEN "finally" ELSE "loop"
    /\ UNCHANGED <<config, old, result, tty_attr, cursor_visible, autowrap>>

\* One iteration of the loop: the token k is read and dispatched, and the loop
\* is left when the termination flag is set or when the action raised.
LoopIteration(k) ==
    /\ pc = "loop"
    /\ LET s == manage_key_input(Cur, k) IN
         /\ Commit(s)
         /\ action' = key_events_get(k)
         /\ raised' = s.raised
         /\ last_selection' = IF s.raised THEN last_selection ELSE s.ret
         /\ pc' = IF s.raised \/ s._terminate THEN "finally" ELSE "loop"
    /\ UNCHANGED <<config, old, result, tty_attr, cursor_visible, autowrap>>

\* The iteration, by the action the token read is bound to.
KeyChangeFocus ==
    \E k \in Tokens :
        key_events_get(k) \in {"change_focus(1)", "change_focus(-1)"} /\ LoopIteration(k)
KeySelectOption ==
    \E k \in Tokens : key_events_get(k) = "select_option" /\ LoopIteration(k)
KeyProceed ==
    \E k \in Tokens : key_events_get(k) = "proceed" /\ LoopIteration(k)
KeyTerminate ==
    \E k \in Tokens : key_events_get(k) = "terminate" /\ LoopIteration(k)
KeyUnbound ==
    \E k \in Tokens : key_events_get(k) = None /\ LoopIteration(k)

\* mutant of tcsetattr_old: the terminal is left in the mode it is in
tcsetattr_skipped == tty_attr

\* termios.tcsetattr(fd, termios.TCSADRAIN, old): the mode the terminal is
\* left in
tcsetattr_old == old

\* mutant of mainstream_return: the focused label is returned in both modes
mainstream_return_label == selection[current_index]

\* the value selman_mainstream returns after the finally block
mainstream_return == IF allow_multiple_selection THEN last_selection ELSE None

wipe_comments(s) ==
    IF footer_comments = {} THEN s
    ELSE LET dist == len(selection) - s.current_index
         IN  cursor_up(erase_line(cursor_down(s, dist)), dist)

\* The finally block of selman_mainstream and the return that follows it (not
\* reached when the loop was left by an exception, which propagates).
Finally ==
    /\ pc = "finally"
    /\ LET s1 == IF wipe_comments_after_select THEN wipe_comments(Cur) ELSE Cur
           initial_cursor_relative_pos == len(selection) - s1.current_index
           s2 == cursor_down(s1, initial_cursor_relative_pos)
       IN  Commit(print_newline(s2))
    /\ tty_attr' = tcsetattr_old
    /\ cursor_visible' = TRUE
    /\ autowrap' = TRUE
    /\ result' = IF raised THEN None ELSE mainstream_return
    /\ pc' = "done"
    /\ UNCHANGED <<config, old, action, last_selection, raised>>

Next ==
    \/ Run
    \/ Mainstream
    \/ MainstreamDraw
    \/ KeyChangeFocus
    \/ KeySelectOption
    \/ KeyProceed
    \/ KeyTerminate
    \/ KeyUnbound
    \/ Finally

Spec == Init /\ [][Next]_vars

\* ------------------------------------------------------------------ claims
\* What the claims speak of, read off a state.
selected(i) == is_index_selected(Cur, i)
banned(i) == is_index_banned(Cur, i)
SelectedItems == {i \in Indices : selected(i)}
N == len(selection)

\* The visual state the precedence rule selected > banned > plain gives item i
\* at rest and under the focus.
RestingEffect(i) == IF selected(i) THEN SELECTED ELSE IF banned(i) THEN BANNED ELSE UNFOCUSED
FocusEffect(i) ==
    IF selected(i) THEN SELECTED_FOCUSED ELSE IF banned(i) THEN BANNED_FOCUSED ELSE FOCUSED

\* The step taken is a dispatch of a token bound to the action named.
Dispatches(bound) == pc = "loop" /\ action' = bound

FlagsUnchanged == sel_board' = sel_board /\ banned_board' = banned_board

\* C1: in single-selection mode, when the session ends by an activate, run()
\* returns the label of the item focused at the activation.
C1_ReturnsFocusedLabel ==
    (pc = "done" /\ ~allow_multiple_selection /\ action = "select_option" /\ ~raised)
        => result = selection[current_index]

\* C2: in single-selection mode an activate sets the termination flag and
\* leaves the loop, and in every state at most one item is selected.
C2_SingleAtMostOneSelected ==
    ~allow_multiple_selection =>
        /\ Cardinality(SelectedItems) <= 1
        /\ (SelectedItems # {} => _terminate /\ pc # "loop")

\* C3: in multi-selection mode, for every mutex pair {a, b}: an activate that
\* selects a leaves a selected and not banned and b banned and not selected;
\* an activate that deselects a leaves b not banned; and a and b are never
\* both selected.
C3_MutexPair ==
    [][ (allow_multiple_selection /\ ValidMutex) =>
          /\ \A a \in Indices : \A b \in get_opposite_mutex_index(a) :
                 ~(selected(a)' /\ selected(b)')
          /\ (Dispatches("select_option") /\ current_index' = current_index) =>
                 \A b \in get_opposite_mutex_index(current_index) :
                    /\ ~selected(current_index) =>
                         /\ selected(current_index)' /\ ~banned(current_index)'
                         /\ banned(b)' /\ ~selected(b)'
                    /\ selected(current_index) =>
                         ~selected(current_index)' /\ ~banned(b)' ]_vars

\* C4: in no reachable state is an item both selected and banned.
C4_NeverSelectedAndBanned ==
    ValidMutex => \A i \in Indices : ~(selected(i) /\ banned(i))

C4_Witness ==
    /\ allow_multiple_selection /\ ValidMutex /\ pc = "loop"
    /\ \E i \in Indices, j \in Indices :
          /\ selected(i) /\ banned(j)
          /\ selection[i] # selection[j]
          /\ action = "select_option" /\ Len(drawn) = 2

\* C5: in multi-selection mode every activate flips the selected flag of the
\* focused item (so after k activates on it from the start of the session it
\* is selected iff k is odd) and does not terminate the session.
C5_ToggleParity ==
    [][ (allow_multiple_selection /\ ValidMutex /\ Dispatches("select_option")) =>
          /\ selected(current_index)' = ~selected(current_index)
          /\ ~_terminate' /\ pc' = "loop" ]_vars

\* C6: when the session has ended, by whatever action or by an error raised
\* in the loop, the terminal is in the mode captured at the start, the cursor
\* is visible and autowrap is enabled.
C6_TerminalRestored ==
    pc = "done" => (tty_attr = old /\ old \in TtyModes /\ cursor_visible /\ autowrap)

C6_Witness ==
    pc = "done" /\ raised /\ tty_attr = old /\ old \in TtyModes

\* C7: the focus index is always within 0..N-1, and a move-next on the last
\* item or a move-prev on the first changes neither the focus, nor a flag,
\* nor the cursor row, nor the screen, and redraws nothing.
C7_FocusInRange ==
    /\ [](0 <= current_index /\ current_index < N)
    /\ [][ ( \/ (Dispatches("change_focus(1)") /\ current_index = N - 1)
             \/ (Dispatches("change_focus(-1)") /\ current_index = 0) ) =>
           /\ current_index' = current_index
           /\ FlagsUnchanged
           /\ cursor' = cursor
           /\ screen' = screen
           /\ drawn' = <<>> ]_vars

C7_Witness ==
    /\ pc = "loop" /\ N >= 2
    /\ action = "change_focus(1)" /\ current_index = N - 1 /\ drawn = <<>>

\* C8: a focus movement that stays within bounds redraws exactly two rows,
\* first the old focus row in its resting state and then the new focus row in
\* its focused state, and changes no selected or banned flag.
C8_MoveRedrawsTwoRows ==
    [][ \A d \in {1, -1} :
          ( /\ Dispatches(IF d = 1 THEN "change_focus(1)" ELSE "change_focus(-1)")
            /\ 0 <= current_index + d /\ current_index + d < N ) =>
          /\ current_index' = current_index + d
          /\ drawn' = << <<current_index, RestingEffect(current_index)>>,
                         <<current_index + d, FocusEffect(current_index + d)>> >>
          /\ screen' = [screen EXCEPT
                          ![current_index] =
                              <<selection[current_index], RestingEffect(current_index)>>,
                          ![current_index + d] =
                              <<selection[current_index + d], FocusEffect(current_index + d)>>]
          /\ FlagsUnchanged ]_vars

C8_Witness ==
    /\ pc = "loop" /\ action = "change_focus(-1)" /\ Len(drawn) = 2
    /\ drawn[1][2] = SELECTED /\ drawn[2][2] = BANNED_FOCUSED

\* C9: in single-selection mode the key n fires no action: the step neither
\* sets the termination flag, nor redraws, nor changes the state.
C9_NoProceedInSingleMode ==
    [][ (~allow_multiple_selection /\ Dispatches("proceed")) =>
          /\ ~_terminate' /\ pc' = "loop"
          /\ drawn' = <<>> /\ screen' = screen
          /\ current_index' = current_index /\ FlagsUnchanged ]_vars

\* C10: terminate() sets the termination flag and does nothing else, and a
\* second call changes nothing more: no row is redrawn, and the focus, the
\* flags, the screen and the cursor are as before the call.
C10_TerminateIdempotent ==
    [][ Dispatches("terminate") =>
          /\ _terminate'
          /\ drawn' = <<>> /\ screen' = screen /\ cursor' = cursor
          /\ current_index' = current_index /\ FlagsUnchanged
          /\ terminate(terminate(Cur)) = terminate(Cur) ]_vars

C10_Witness ==
    /\ pc = "finally" /\ action = "terminate" /\ _terminate
    /\ allow_multiple_selection /\ SelectedItems # {} /\ current_index > 0

\* C11: once the focus is initialised and after every completed action the
\* cursor is on the row of the focused item; a draw at another item's row
\* moves the cursor by the signed delta onto that row and back by the same
\* delta, also when the draw raises.
C11_CursorOnFocusRow ==
    pc \in {"loop", "finally"} =>
        /\ cursor = current_index
        /\ \A t \in Indices :
              /\ move_cursor_by_relative_pos_row(
                     Cur, get_relative_pos_by_index(Cur, t)).cursor = t
              /\ render_text_effect(Cur, BANNED, {t}).cursor = cursor
              /\ render_text_effect(Cur, BANNED, {t}).screen[t] = <<selection[t], BANNED>>
              /\ render_text_effect_raising(Cur, BANNED, {t}).cursor = cursor
              /\ render_text_effect_raising(Cur, BANNED, {t}).screen = screen

C11_Witness ==
    /\ pc = "loop" /\ action = "select_option" /\ cursor = current_index
    /\ Len(drawn) = 2 /\ drawn[2][1] < current_index /\ drawn[2][2] = BANNED

\* C12: a token bound to no action (an unbound byte, an unbound escape
\* sequence, the empty read) fires nothing: focus, flags, termination flag,
\* screen and cursor are unchanged, nothing is drawn, nothing is raised and
\* the loop goes on.
C12_UnboundTokenIgnored ==
    [][ Dispatches(None) =>
          /\ UNCHANGED <<fields, cursor, screen, raised>>
          /\ drawn' = <<>>
          /\ pc' = "loop" ]_vars

C12_Witness ==
    /\ pc = "loop" /\ action = None /\ drawn = <<>> /\ ~_terminate
    /\ current_index > 0 /\ SelectedItems # {}

\* C13: in multi-selection mode run() returns None whenever the session is
\* ended by a key, and the finally block leaves the focus and every selected
\* and banned flag as the last action left them.
C13_MultiReturnsNone ==
    /\ [](pc = "done" /\ allow_multiple_selection /\ ~raised => result = None)
    /\ [][ pc = "finally" =>
             /\ FlagsUnchanged
             /\ current_index' = current_index ]_vars

C13_Witness ==
    /\ pc = "done" /\ allow_multiple_selection /\ ~raised /\ result = None
    /\ action = "proceed" /\ SelectedItems # {} /\ \E i \in Indices : banned(i)

\* C14: while the session is running, after every completed action the row of
\* every item shows the visual state its flags resolve to: the focused item
\* SELECTED_FOCUSED / BANNED_FOCUSED / FOCUSED, every other item SELECTED /
\* BANNED / UNFOCUSED.
C14_ScreenMatchesFlags ==
    (pc = "loop" /\ ValidMutex) =>
        \A i \in Indices :
            screen[i] = <<selection[i],
                          IF i = current_index THEN FocusEffect(i) ELSE RestingEffect(i)>>

\* C15: proceed() redraws the focused item, and only it, in its resting state
\* (SELECTED if selected, BANNED if banned, otherwise UNFOCUSED), sets the
\* termination flag and changes neither a flag nor the focus.
C15_ProceedDrawsRestingState ==
    [][ (allow_multiple_selection /\ ValidMutex /\ Dispatches("proceed")) =>
          /\ drawn' = << <<current_index, RestingEffect(current_index)>> >>
          /\ _terminate'
          /\ FlagsUnchanged
          /\ current_index' = current_index ]_vars

\* C16: with footer erasing enabled and F >= 1 footer lines drawn, the exit
\* sequence erases every footer row N .. N+F-1 and has the cursor on row N,
\* directly below the last item, when the terminal mode is restored.
C16_AllFooterRowsErased ==
    /\ (pc = "finally" /\ wipe_comments_after_select /\ footer_comments # {}) =>
          LET s1 == wipe_comments(Cur)
              s2 == cursor_down(s1, len(selection) - s1.current_index)
          IN  /\ s2.cursor = N
              /\ \A r \in N..(N + FooterCount - 1) : s2.screen[r] = <<"erased">>
    /\ (pc = "done" /\ wipe_comments_after_select /\ footer_comments # {}) =>
          \A r \in N..(N + FooterCount - 1) : screen[r] = <<"erased">>

\* C17 as stated: whenever an item row has been drawn, the terminal mode has
\* been captured, raw mode entered, the cursor hidden and autowrap disabled.
C17_RawBeforeItemsDrawn ==
    (pc \in {"mainstream", "entered", "loop"} /\ \E i \in Indices : screen[i] # <<>>) =>
        /\ old \in TtyModes
        /\ tty_attr = "raw"
        /\ ~cursor_visible
        /\ ~autowrap

\* C17: session entry is three steps in this order.  run() draws every item
\* row UNFOCUSED top to bottom, one row each, with the terminal still in the
\* mode it was found in, the cursor visible and autowrap on.  selman_mainstream
\* then captures the mode, enters raw mode, hides the cursor and disables
\* autowrap, drawing nothing.  Only then are the footer lines written, on the
\* rows below the items, and the initial focus is the last and only styled
\* draw, on row 0, reached by moving up N plus the footer-line count from the
\* row below the footer.
C17_EntryOrder ==
    [][ /\ pc = "run" =>
             /\ UNCHANGED <<tty_attr, old, cursor_visible, autowrap>>
             /\ tty_attr \in TtyModes /\ cursor_visible /\ autowrap
             /\ Len(drawn') = N
             /\ \A i \in Indices : drawn'[i + 1] = <<i, UNFOCUSED>>
             /\ cursor' = N
             /\ pc' = "mainstream"
        /\ pc = "mainstream" =>
             /\ old' = tty_attr /\ tty_attr' = "raw"
             /\ ~cursor_visible' /\ ~autowrap'
             /\ UNCHANGED <<screen, cursor, fields>>
             /\ drawn' = <<>>
             /\ \A r \in N..(N + FooterCount) : screen[r] = <<>>
             /\ pc' = "entered"
        /\ pc = "entered" =>
             /\ UNCHANGED <<tty_attr, old, cursor_visible, autowrap>>
             /\ \A i \in Indices \ {0} : screen'[i] = <<selection[i], UNFOCUSED>>
             /\ \A f \in 1..FooterCount :
                    screen'[N + f - 1] = <<(CHOOSE c \in footer_comments : TRUE)[f]>>
             /\ print_comments(Cur).cursor = N + FooterCount
             /\ drawn' = << <<0, FOCUSED>> >>
             /\ screen'[0] = <<selection[0], FOCUSED>>
             /\ cursor' = 0 /\ current_index' = 0
             /\ pc' = "loop" ]_vars

C17_Witness ==
    /\ pc = "loop" /\ action = None /\ drawn = << <<0, FOCUSED>> >>
    /\ N = MaxItems /\ FooterCount = MaxFooter
    /\ tty_attr = "raw" /\ old = "cooked" /\ ~cursor_visible /\ ~autowrap

\* C18: the termination flag is checked after every dispatched key and is
\* monotonic: the iteration that sets it leaves the loop, once it is true it
\* stays true and the only step left is the exit sequence, which reads no
\* token, dispatches no action and redraws no item; and the flag is set only
\* by terminate, proceed, or select_option in single-selection mode.
C18_TerminateMonotonic ==
    /\ [](_terminate => pc \in {"finally", "done"})
    /\ [][ /\ _terminate =>
                /\ _terminate'
                /\ pc = "finally" /\ pc' = "done"
                /\ action' = action /\ last_selection' = last_selection
                /\ drawn' = <<>>
                /\ FlagsUnchanged /\ current_index' = current_index
           /\ (~_terminate /\ _terminate') =>
                /\ pc = "loop" /\ pc' = "finally"
                /\ \/ action' \in {"terminate", "proceed"}
                   \/ action' = "select_option" /\ ~allow_multiple_selection
           /\ (Dispatches("select_option") /\ allow_multiple_selection) => ~_terminate'
           /\ (Dispatches("change_focus(1)") \/ Dispatches("change_focus(-1)")) =>
                ~_terminate' ]_vars

C18_Witness ==
    /\ pc = "done" /\ _terminate /\ ~raised
    /\ action = "select_option" /\ ~allow_multiple_selection /\ current_index > 0

\* C19: in multi-selection mode with a valid mutex configuration an item is
\* banned iff it has a mutex partner and that partner is selected; an item
\* with no mutex partner is never banned.
C19_BannedIffPartnerSelected ==
    (allow_multiple_selection /\ ValidMutex) =>
        \A i \in Indices :
            banned(i) <=> \E b \in get_opposite_mutex_index(i) : selected(b)

\* C20: an activate on the focused item i changes the selected and banned
\* flags of i and of i's mutex partner only; every other item index keeps its
\* flags, also an item whose label is the label of i.
C20_FlagsPerIndex ==
    [][ Dispatches("select_option") =>
          \A j \in Indices \ ({current_index} \cup get_opposite_mutex_index(current_index)) :
              /\ selected(j)' = selected(j)
              /\ banned(j)' = banned(j) ]_vars
====
